---- MODULE Spec2Model ----
(***************************************************************************)
(* Model of app.py, the Project Gutenberg explorer: the text condenser     *)
(* (condense_text), the analyzer (analyze_text), the book fetcher          *)
(* (fetch_book), the cache store (load_books / save_books) and the         *)
(* Streamlit shell (main), which is re-executed top to bottom on every     *)
(* user interaction.                                                       *)
(*                                                                         *)
(* A text is a sequence of one-character strings.                          *)
(***************************************************************************)
EXTENDS Integers, Sequences, FiniteSets, TLC

VARIABLES
    \* a direct call of condense_text
    pieces,      \* the pieces the input text is made of
    max_chars,   \* the max_chars argument
    cpc,         \* "input" before the call, "done" after it
    frame,       \* the call's locals at return (<<>> before the call)
    \* a direct call of analyze_text
    a_text,      \* the text argument
    a_type,      \* the analysis_type argument
    a_model,     \* the model argument
    apc,         \* "input" before the call, "done" after it
    a_out,       \* what the call returned and did (<<>> before the call)
    \* the Streamlit session
    file,        \* books.json: whether it exists, and its content
    session,     \* st.session_state["current_book_id"]: <<>> or <<id>>
    field,       \* the value of the identifier text input
    run          \* what the last execution of main() did and rendered

cvars == <<pieces, max_chars, cpc, frame>>
avars == <<a_text, a_type, a_model, apc, a_out>>
svars == <<file, session, field, run>>
vars == <<pieces, max_chars, cpc, frame, a_text, a_type, a_model, apc, a_out,
          file, session, field, run>>

\* None is the empty sequence, a present value x is <<x>>
None == <<>>

(***************************************************************************)
(* Characters                                                              *)
(***************************************************************************)
Upper == {"A","B","C","D","E","F","G","H","I","J","K","L","M",
          "N","O","P","Q","R","S","T","U","V","W","X","Y","Z"}
Lower == {"a","b","c","d","e","f","g","h","i","j","k","l","m",
          "n","o","p","q","r","s","t","u","v","w","x","y","z"}
\* [.!?] of the split pattern
IsTerm(c) == c \in {".", "!", "?"}
\* \s of the split pattern, among the characters the texts are made of
IsSpace(c) == c \in {" ", "\n", "\t", "\r"}

Min2(a, b) == IF a <= b THEN a ELSE b
Max2(a, b) == IF a >= b THEN a ELSE b
SetMin(S) == CHOOSE x \in S : \A y \in S : x <= y
SetMax(S) == CHOOSE x \in S : \A y \in S : x >= y

(***************************************************************************)
(* Python string primitives                                                *)
(***************************************************************************)
\* s[a:] for a >= 0
SliceFrom(s, a) == SubSeq(s, a + 1, Len(s))
\* s[:n] for any integer n (a negative n counts from the end)
SliceTo(s, n) ==
    IF n >= 0 THEN SubSeq(s, 1, Min2(n, Len(s)))
    ELSE SubSeq(s, 1, Max2(Len(s) + n, 0))
\* s[a:b] for 0 <= a <= b
Slice(s, a, b) == SubSeq(s, a + 1, Min2(b, Len(s)))

\* s.find(sub): the lowest 0-based index where sub occurs, -1 when it does not
find(s, sub) ==
    IF sub = <<>> THEN 0
    ELSE LET hits == {i \in 1..(Len(s) - Len(sub) + 1) :
                         /\ s[i] = sub[1]
                         /\ \A k \in 2..Len(sub) : s[i + k - 1] = sub[k]}
         IN  IF hits = {} THEN -1 ELSE SetMin(hits) - 1

\* sep.join(list) with sep = " "
RECURSIVE join(_)
join(list) ==
    IF Len(list) = 0 THEN <<>>
    ELSE IF Len(list) = 1 THEN list[1]
    ELSE list[1] \o <<" ">> \o join(Tail(list))

\* re.split(r'(?<=[.!?])\s+', s): a separator is a maximal run of whitespace
\* that directly follows a terminator; the pieces between separators are
\* kept, empty ones included, so the result always has at least one element.
SepStarts(s) == {p \in 2..Len(s) : IsSpace(s[p]) /\ IsTerm(s[p - 1])}
SepEnd(s, p) ==
    CHOOSE q \in p..Len(s) :
        /\ \A k \in p..q : IsSpace(s[k])
        /\ (q = Len(s) \/ ~IsSpace(s[q + 1]))
re_split(s) ==
    LET starts == SepStarts(s)
        n == Cardinality(starts)
        nth == [k \in 1..n |->
                   CHOOSE p \in starts :
                       Cardinality({r \in starts : r < p}) = k - 1]
    IN  [k \in 1..(n + 1) |->
            SubSeq(s,
                   IF k = 1 THEN 1 ELSE SepEnd(s, nth[k - 1]) + 1,
                   IF k = n + 1 THEN Len(s) ELSE nth[k] - 1)]

\* '"' in s or re.search(r'[A-Z][a-z]+', s)
IsKey(s) ==
    \/ \E i \in 1..Len(s) : s[i] = "\""
    \/ \E i \in 1..(Len(s) - 1) : s[i] \in Upper /\ s[i + 1] \in Lower

\* [x for x in list if pred]
RECURSIVE key_filter(_)
key_filter(list) ==
    IF list = <<>> THEN <<>>
    ELSE (IF IsKey(Head(list)) THEN <<Head(list)>> ELSE <<>>)
         \o key_filter(Tail(list))

\* sorted(list, key=len, reverse=True): descending length, and stable (equal
\* lengths keep their order in list)
SortPos(list, k) ==
    Cardinality({j \in 1..Len(list) : Len(list[j]) > Len(list[k])})
    + Cardinality({j \in 1..(k - 1) : Len(list[j]) = Len(list[k])}) + 1
sorted_len_desc(list) ==
    [r \in 1..Len(list) |->
        list[CHOOSE k \in 1..Len(list) : SortPos(list, k) = r]]

(***************************************************************************)
(* condense_text                                                           *)
(***************************************************************************)
Marker == <<"*", "*", "*", " ", "S", "T", "A", "R", "T", " ", "O", "F", " ",
            "T", "H", "E", " ", "P", "R", "O", "J", "E", "C", "T", " ",
            "G", "U", "T", "E", "N", "B", "E", "R", "G", " ",
            "E", "B", "O", "O", "K">>
MarkerSkip == 100
chunk_size == 5000
MaxWeight == 2
DefaultMaxChars == 10000

\* a variant that skips the marker itself instead of 100 characters
StripFrontMatter_MarkerOnly(text) ==
    LET start_idx == find(text, Marker)
    IN  IF start_idx # -1 THEN SliceFrom(text, start_idx + Len(Marker))
        ELSE text

\* lines 79-81
StripFrontMatter(text) ==
    LET start_idx == find(text, Marker)
    IN  IF start_idx # -1 THEN SliceFrom(text, start_idx + MarkerSkip) ELSE text

\* line 84: [text[i:i + chunk_size] for i in range(0, len(text), chunk_size)]
NumChunks(text) == (Len(text) + chunk_size - 1) \div chunk_size
Chunks(text) ==
    [k \in 1..NumChunks(text) |->
        Slice(text, (k - 1) * chunk_size, k * chunk_size)]

\* a variant whose weight grows with the chunk index
Weight_Rising(n, i) == Min2(MaxWeight, i + 1)

\* line 91, for the 0-based chunk index i of n chunks
Weight(n, i) == Min2(MaxWeight, n - i)

\* a variant whose fallback is the last sentence of the chunk
Selected_LastFallback(sentences, key_sentences, n, i) ==
    IF key_sentences # <<>>
    THEN SliceTo(sorted_len_desc(key_sentences), Weight(n, i))
    ELSE <<(IF sentences # <<>> THEN sentences[Len(sentences)] ELSE <<>>)>>

\* lines 90-94: what the loop body adds to `condensed` for the chunk of
\* 0-based index i among n chunks
Selected(sentences, key_sentences, n, i) ==
    IF key_sentences # <<>>
    THEN SliceTo(sorted_len_desc(key_sentences), Weight(n, i))
    ELSE <<(IF sentences # <<>> THEN sentences[1] ELSE <<>>)>>

\* condensed.extend / condensed.append over the chunks, in chunk order
RECURSIVE ExtendAll(_, _)
ExtendAll(added, upto) ==
    IF upto = 0 THEN <<>> ELSE ExtendAll(added, upto - 1) \o added[upto]

\* a variant that cuts one character late
Truncate_OffByOne(condensed_text, maxc) ==
    IF Len(condensed_text) > maxc THEN SliceTo(condensed_text, maxc + 1)
    ELSE condensed_text

\* lines 96-97
Truncate(condensed_text, maxc) ==
    IF Len(condensed_text) > maxc THEN SliceTo(condensed_text, maxc)
    ELSE condensed_text

\* The locals of one call of condense_text at its return; `added` keeps, per
\* chunk, what the loop body put into `condensed` for that chunk.
CondenseFrame(text0, maxc) ==
    LET text == StripFrontMatter(text0)
        chunks == Chunks(text)
        sentences == [k \in 1..Len(chunks) |-> re_split(chunks[k])]
        key_sentences == [k \in 1..Len(chunks) |-> key_filter(sentences[k])]
        added == [k \in 1..Len(chunks) |->
                     Selected(sentences[k], key_sentences[k],
                              Len(chunks), k - 1)]
        condensed == ExtendAll(added, Len(chunks))
        condensed_text == join(condensed)
    IN  [chunks |-> chunks,
         sentences |-> sentences,
         key_sentences |-> key_sentences,
         added |-> added,
         condensed |-> condensed,
         condensed_text |-> condensed_text,
         result |-> Truncate(condensed_text, maxc)]

condense_text(text, maxc) == CondenseFrame(text, maxc).result

(***************************************************************************)
(* analyze_text                                                            *)
(***************************************************************************)
\* the keys of the `prompts` dict, lines 103-125
PromptKeys == {"summary", "sentiment", "characters"}
max_tokens == 700
timeout == 20

\* line 127: prompts.get(analysis_type, "Invalid analysis type")
\*               .format(condensed_text=condensed_text)
\* A template of the dict ends in "Text: {condensed_text}", so its prompt
\* carries the condensed text; the default string has no placeholder, so
\* format() returns it as it is.
BuildPrompt(analysis_type, condensed_text) ==
    IF analysis_type \in PromptKeys
    THEN [template |-> analysis_type, text |-> condensed_text]
    ELSE [template |-> "Invalid analysis type", text |-> <<>>]

\* lines 100-140.  api is what client.chat.completions.create does for the
\* request: <<>> when it raises, <<content>> when it answers with content.
\* requests lists the requests sent, errors what st.error reported.
\* lines 129-140, for the request built
Complete(request, api) ==
    IF api # None
    THEN [ret |-> api[1], requests |-> <<request>>, errors |-> <<>>]
    ELSE [ret |-> "Analysis failed.", requests |-> <<request>>,
          errors |-> <<"Error during analysis">>]
analyze_text(text, analysis_type, model, api) ==
    Complete([model |-> model,
              content |-> BuildPrompt(analysis_type,
                                      condense_text(text, DefaultMaxChars)),
              max_tokens |-> max_tokens, timeout |-> timeout],
             api)

(***************************************************************************)
(* The cache store.  `books` is a Python dict: a sequence of entries       *)
(* [id, data] with distinct ids, in insertion order.  The content of       *)
(* books.json is a sequence of tokens: braces, whitespace, members of a    *)
(* JSON object, and junk that is no JSON.                                  *)
(***************************************************************************)
Has(books, id) == \E i \in 1..Len(books) : books[i].id = id
Get(books, id) == books[CHOOSE i \in 1..Len(books) : books[i].id = id].data
\* books[id] = data
Put(books, id, data) ==
    IF Has(books, id)
    THEN [i \in 1..Len(books) |->
             IF books[i].id = id THEN [id |-> id, data |-> data] ELSE books[i]]
    ELSE Append(books, [id |-> id, data |-> data])
Keys(books) == {books[i].id : i \in 1..Len(books)}

TokOpen == [t |-> "{"]
TokClose == [t |-> "}"]
TokWs == [t |-> "ws"]
TokJunk == [t |-> "junk"]
TokMember(e) ==
    [t |-> "member", id |-> e.id,
     title |-> e.data.title, content |-> e.data.content]

\* str.strip(): without the leading and trailing whitespace
strip(s) ==
    LET solid == {i \in 1..Len(s) : s[i] # TokWs}
    IN  IF solid = {} THEN <<>> ELSE SubSeq(s, SetMin(solid), SetMax(solid))

\* the dict of the members among s[1..upto], a later member of the same key
\* replacing the earlier one
RECURSIVE MembersToDict(_, _)
MembersToDict(s, upto) ==
    IF upto = 0 THEN <<>>
    ELSE LET rest == MembersToDict(s, upto - 1)
         IN  IF s[upto].t = "member"
             THEN Put(rest, s[upto].id,
                      [content |-> s[upto].content, title |-> s[upto].title])
             ELSE rest

\* json.loads(s): s must be an object, "{" members "}", with whitespace
\* allowed between the tokens; anything else raises JSONDecodeError
json_loads(s) ==
    LET t == strip(s)
        ok == /\ Len(t) >= 2
              /\ t[1] = TokOpen
              /\ t[Len(t)] = TokClose
              /\ \A i \in 2..(Len(t) - 1) : t[i].t \in {"ws", "member"}
    IN  IF ok THEN [raised |-> FALSE, value |-> MembersToDict(t, Len(t))]
        ELSE [raised |-> TRUE, value |-> <<>>]

\* json.dump(books, f, indent=4): "{}" for the empty dict, else each member
\* on a line of its own, indented
RECURSIVE DumpMembers(_, _)
DumpMembers(books, upto) ==
    IF upto = 0 THEN <<>>
    ELSE DumpMembers(books, upto - 1) \o <<TokWs, TokMember(books[upto])>>
json_dump(books) ==
    IF books = <<>> THEN <<TokOpen, TokClose>>
    ELSE <<TokOpen>> \o DumpMembers(books, Len(books)) \o <<TokWs, TokClose>>

\* a variant without the `if content` test: the empty string goes to
\* json.loads, which raises
load_books_NoBlankCheck(f) ==
    IF f.exists
    THEN IF json_loads(f.content).raised
         THEN [ret |-> <<>>, warned |-> TRUE, raised |-> FALSE]
         ELSE [ret |-> json_loads(f.content).value, warned |-> FALSE,
               raised |-> FALSE]
    ELSE [ret |-> <<>>, warned |-> FALSE, raised |-> FALSE]

\* lines 24-36.  ret is the returned dict, warned whether st.warning was
\* called, raised whether an exception left the function.
load_books(f) ==
    IF f.exists
    THEN LET content == strip(f.content)
         IN  IF content # <<>>
             THEN LET parsed == json_loads(content)
                  IN  IF parsed.raised
                      THEN [ret |-> <<>>, warned |-> TRUE, raised |-> FALSE]
                      ELSE [ret |-> parsed.value, warned |-> FALSE,
                            raised |-> FALSE]
             ELSE [ret |-> <<>>, warned |-> FALSE, raised |-> FALSE]
    ELSE [ret |-> <<>>, warned |-> FALSE, raised |-> FALSE]

\* lines 39-41: the file after save_books(books)
save_books(books) == [exists |-> TRUE, content |-> json_dump(books)]

(***************************************************************************)
(* fetch_book.  net is what the catalog does for this call:                *)
(*   meta      "error" when the metadata request raises RequestException,  *)
(*             "ok" when it returns the metadata page                      *)
(*   link      whether the page has an anchor labelled "Plain Text UTF-8"  *)
(*   title_tag None when the page has no <title>, else <<its text>>        *)
(*   content   None when the content request raises, else <<the text>>     *)
(***************************************************************************)
TitleUnavailable(book_id) == <<"Book ", book_id, " (Title Unavailable)">>

\* a variant that goes on with an empty content when the content request
\* fails
fetch_book_EmptyOnError(book_id, net) ==
    IF net.meta = "error"
    THEN [ret |-> None, error |-> "Error fetching metadata page",
          raised |-> FALSE]
    ELSE IF ~net.link
    THEN [ret |-> None, error |-> "No Plain Text UTF-8 file found",
          raised |-> FALSE]
    ELSE [ret |-> <<[content |-> IF net.content = None THEN <<>>
                                 ELSE net.content[1],
                     title |-> IF net.title_tag # None
                               THEN <<net.title_tag[1]>>
                               ELSE TitleUnavailable(book_id)]>>,
          error |-> "", raised |-> FALSE]

\* lines 44-75.  ret is None or <<the record>>, error what st.error
\* reported, raised whether an exception left the function.
fetch_book(book_id, net) ==
    IF net.meta = "error"
    THEN [ret |-> None, error |-> "Error fetching metadata page",
          raised |-> FALSE]
    ELSE IF ~net.link
    THEN [ret |-> None, error |-> "No Plain Text UTF-8 file found",
          raised |-> FALSE]
    ELSE IF net.content = None
    THEN [ret |-> None, error |-> "Error fetching book content",
          raised |-> FALSE]
    ELSE [ret |-> <<[content |-> net.content[1],
                     title |-> IF net.title_tag # None
                               THEN <<net.title_tag[1]>>
                               ELSE TitleUnavailable(book_id)]>>,
          error |-> "", raised |-> FALSE]

(***************************************************************************)
(* main: one execution of the script.  Its inputs w are the widget values  *)
(* of this execution and what the outside does if it is called:            *)
(*   book_id  the value of the text input                                  *)
(*   click    None, or <<id>> for the sidebar button that returns True     *)
(*   press    None, or <<[analysis_type, model]>> when "Analyze Text"      *)
(*            returns True with the selectboxes at these values            *)
(*   net      what the catalog does if fetch_book is called                *)
(*   api      what the LLM API does if analyze_text is called              *)
(* The execution is written as the code runs, one stage handing its        *)
(* values to the next.  The result is the file and the session state       *)
(* after the execution, and a record `run` of what it did and rendered.    *)
(***************************************************************************)
PreviewLen == 1000
\* line 176: book["content"][:1000] + "..."
Preview(content) == Slice(content, 0, PreviewLen) \o <<".", ".", ".">>

\* lines 171-185: what is rendered for the current book, and the analysis
Showing(books, sess) == sess # None /\ Has(books, sess[1])
Shown(books, current_id) ==
    [id |-> current_id,
     title |-> Get(books, current_id).title,
     preview |-> Preview(Get(books, current_id).content)]
\* fetch tells what this execution did about fetching: net is None when
\* fetch_book was not called (else <<what the catalog did>>), ret is what
\* fetch_book returned, saved whether save_books was called
NoFetch == [net |-> None, ret |-> None, saved |-> FALSE]
Display(f0, f1, ld, books, sess, w, fetch) ==
    [file |-> f1,
     session |-> sess,
     run |->
       [file_before |-> f0,
        warned |-> ld.warned,
        loaded |-> ld.ret,
        books |-> books,
        clicked |-> w.click,
        book_id |-> w.book_id,
        fetched |-> fetch.net,
        fetch_ret |-> fetch.ret,
        saved |-> fetch.saved,
        crashed |-> FALSE,
        sidebar |-> Keys(ld.ret),
        shown |-> IF Showing(books, sess)
                  THEN <<Shown(books, sess[1])>> ELSE None,
        analysis |-> IF Showing(books, sess) /\ w.press # None
                     THEN <<analyze_text(Get(books, sess[1]).content,
                                         w.press[1].analysis_type,
                                         w.press[1].model, w.api)>>
                     ELSE None]]

\* an exception leaves main(): nothing more is executed or rendered
Crashed(f0, ld, sess, w, fetched) ==
    [file |-> f0,
     session |-> sess,
     run |->
       [file_before |-> f0, warned |-> ld.warned, loaded |-> ld.ret,
        books |-> ld.ret, clicked |-> w.click, book_id |-> w.book_id,
        fetched |-> fetched, fetch_ret |-> None, saved |-> FALSE,
        crashed |-> TRUE, sidebar |-> {}, shown |-> None, analysis |-> None]]

\* lines 164-167, with book_data what fetch_book returned
Store(f0, ld, sess, w, book_data) ==
    IF book_data.raised THEN Crashed(f0, ld, sess, w, <<w.net>>)
    ELSE IF book_data.ret # None
    THEN Display(f0, save_books(Put(ld.ret, w.book_id, book_data.ret[1])),
                 ld, Put(ld.ret, w.book_id, book_data.ret[1]),
                 <<w.book_id>>, w,
                 [net |-> <<w.net>>, ret |-> book_data.ret, saved |-> TRUE])
    ELSE Display(f0, f0, ld, ld.ret, sess, w,
                 [net |-> <<w.net>>, ret |-> None, saved |-> FALSE])

\* a variant that fetches whatever the cache holds
CacheMiss_Always(books, book_id) == TRUE

\* line 161
CacheMiss(books, book_id) == ~Has(books, book_id)

\* lines 160-169, with sess the session state after the sidebar
Lookup(f0, ld, sess, w) ==
    IF w.book_id = "" THEN Display(f0, f0, ld, ld.ret, sess, w, NoFetch)
    ELSE IF CacheMiss(ld.ret, w.book_id)
    THEN Store(f0, ld, sess, w, fetch_book(w.book_id, w.net))
    ELSE Display(f0, f0, ld, ld.ret, <<w.book_id>>, w, NoFetch)

\* lines 149-156: the button of a loaded book that returns True sets the
\* current book
Sidebar(books, sess, click) ==
    IF click # None /\ Has(books, click[1]) THEN click ELSE sess

\* line 147 on, with ld what load_books returned
Loaded(f0, ld, sess, w) ==
    IF ld.raised THEN Crashed(f0, ld, sess, w, None)
    ELSE Lookup(f0, ld, Sidebar(ld.ret, sess, w.click), w)

main(f, sess, w) == Loaded(f, load_books(f), sess, w)

(***************************************************************************)
(* Inputs of the condenser: a text is the concatenation of at most         *)
(* MaxPieces pieces, each one or two characters, the marker, or a          *)
(* paragraph as long as a chunk.                                           *)
(***************************************************************************)
MaxPieces == 3

Rep(c, n) == [i \in 1..n |-> c]
\* a 5000-character paragraph with three qualifying sentences and one long
\* sentence that does not qualify
FillBlock ==
    <<"A", "b", ".", " ", "\"", "c", "\"", " ", "d", "e", "!", "\n",
      "F", "g", "h", "i", "?", " ">> \o Rep("x", 4980) \o <<".", " ">>
\* a 5000-character paragraph with no qualifying sentence
PlainBlock == <<"y", ".", " ">> \o Rep("z", 4995) \o <<"!", " ">>

PieceNames == {"A", "b", ". ", "\"", "MARK", "FILL", "PLAIN"}
PieceText(p) ==
    CASE p = "MARK" -> Marker
      [] p = "FILL" -> FillBlock
      [] p = "PLAIN" -> PlainBlock
      [] p = ". " -> <<".", " ">>
      [] OTHER -> <<p>>

RECURSIVE Flatten(_)
Flatten(ps) ==
    IF ps = <<>> THEN <<>> ELSE PieceText(Head(ps)) \o Flatten(Tail(ps))

PieceSeqs == UNION {[1..n -> PieceNames] : n \in 0..MaxPieces}
MaxCharsValues == {0, 2, DefaultMaxChars}

CallCondense ==
    /\ cpc = "input"
    /\ frame' = CondenseFrame(Flatten(pieces), max_chars)
    /\ cpc' = "done"
    /\ UNCHANGED <<pieces, max_chars>>
    /\ UNCHANGED <<avars, svars>>

(***************************************************************************)
(* Inputs of a direct call of analyze_text                                 *)
(***************************************************************************)
Models == {"llama3-70b-8192", "mixtral-8x7b-32768", "gemma2-9b-it"}
\* the three keys of `prompts` and one string that is none of them
AnalysisTypeValues == PromptKeys \cup {"foo"}
AnalyzeTexts == {Flatten(ps) : ps \in {<<>>} \cup [1..1 -> PieceNames]}
ApiOutcomes == {None, <<"completion">>}

CallAnalyze ==
    /\ apc = "input"
    /\ \E api \in ApiOutcomes :
          a_out' = analyze_text(a_text, a_type, a_model, api)
    /\ apc' = "done"
    /\ UNCHANGED <<a_text, a_type, a_model>>
    /\ UNCHANGED <<cvars, svars>>

(***************************************************************************)
(* The Streamlit session: every interaction executes main() once           *)
(***************************************************************************)
Ids == {"84", "1787"}
ContentA == <<"A", "b", ".", " ", "\"", "c", "\"">>
ContentB == <<"x", ".", " ", "y">>
Contents == {ContentA, ContentB}
TitleTags == {None, <<"Hamlet">>}
NetOutcomes ==
    {[meta |-> "error", link |-> FALSE, title_tag |-> None, content |-> None],
     [meta |-> "ok", link |-> FALSE, title_tag |-> None, content |-> None],
     [meta |-> "ok", link |-> TRUE, title_tag |-> None, content |-> None]}
    \cup {[meta |-> "ok", link |-> TRUE, title_tag |-> t, content |-> <<c>>] :
             t \in TitleTags, c \in Contents}
\* the options of the "Choose Analysis Type" selectbox, line 178
AnalysisTypes == {"summary", "sentiment", "characters"}

\* books.json when the session starts: missing, empty, whitespace only, no
\* JSON, cut short, or written by save_books
OneBook == <<[id |-> "84", data |-> [content |-> ContentA,
                                     title |-> <<"Hamlet">>]]>>
NoFile == [exists |-> FALSE, content |-> <<>>]
InitFiles ==
    {NoFile,
     [exists |-> TRUE, content |-> <<>>],
     [exists |-> TRUE, content |-> <<TokWs, TokWs>>],
     [exists |-> TRUE, content |-> <<TokJunk>>],
     [exists |-> TRUE, content |-> <<TokOpen, TokWs, TokMember(OneBook[1])>>],
     save_books(<<>>),
     save_books(OneBook)}

NoRun ==
    [kind |-> "none", file_before |-> NoFile,
     warned |-> FALSE, loaded |-> <<>>, books |-> <<>>, clicked |-> None,
     book_id |-> "", fetched |-> None, fetch_ret |-> None, saved |-> FALSE,
     crashed |-> FALSE, sidebar |-> {}, shown |-> None, analysis |-> None]

\* one execution of main() with the given widget values
Commit(kind, book_id, out) ==
    /\ file' = out.file
    /\ session' = out.session
    /\ field' = book_id
    /\ run' = [kind |-> kind] @@ out.run
    /\ UNCHANGED <<cvars, avars>>
Execute(kind, book_id, click, press, net, api) ==
    Commit(kind, book_id,
           main(file, session,
                [book_id |-> book_id, click |-> click, press |-> press,
                 net |-> net, api |-> api]))

\* The catalog answers only when fetch_book is called, the LLM API only when
\* analyze_text is: otherwise there is nothing to choose.
NoNet == [meta |-> "error", link |-> FALSE, title_tag |-> None,
          content |-> None]
NetChoices(book_id) ==
    IF book_id # "" /\ CacheMiss(load_books(file).ret, book_id)
    THEN NetOutcomes ELSE {NoNet}

\* the page is opened, or a selectbox is changed: no button returns True
Rerun ==
    \E net \in NetChoices(field) :
        Execute("rerun", field, None, None, net, None)

\* the user types another identifier into the text input
EnterId ==
    /\ run.kind # "none"
    /\ ~run.crashed
    /\ \E v \in Ids \cup {""} :
          /\ v # field
          /\ \E net \in NetChoices(v) :
                Execute("enter", v, None, None, net, None)

\* the user clicks a book of the sidebar, as rendered by the last execution
ClickBook ==
    /\ ~run.crashed
    /\ \E b \in run.sidebar, net \in NetChoices(field) :
          Execute("click", field, <<b>>, None, net, None)

\* the user presses "Analyze Text", rendered by the last execution
PressAnalyze ==
    /\ run.shown # None
    /\ \E t \in AnalysisTypes, m \in Models,
          net \in NetChoices(field), api \in ApiOutcomes :
          Execute("press", field, None,
                  <<[analysis_type |-> t, model |-> m]>>, net, api)

(***************************************************************************)
(* Specifications                                                          *)
(***************************************************************************)
\* the session before the first execution of main()
Init ==
    /\ file \in InitFiles
    /\ session = None
    /\ field = ""
    /\ run = NoRun
    /\ pieces = <<>>
    /\ max_chars = 0
    /\ cpc = "idle"
    /\ frame = <<>>
    /\ a_text = <<>>
    /\ a_type = ""
    /\ a_model = ""
    /\ apc = "idle"
    /\ a_out = <<>>
Next == Rerun \/ EnterId \/ ClickBook \/ PressAnalyze
Spec == Init /\ [][Next]_vars

\* a direct call of condense_text on every input of the bounded family
InitCondense ==
    /\ pieces \in PieceSeqs
    /\ max_chars \in MaxCharsValues
    /\ cpc = "input"
    /\ frame = <<>>
    /\ a_text = <<>>
    /\ a_type = ""
    /\ a_model = ""
    /\ apc = "idle"
    /\ a_out = <<>>
    /\ file = NoFile
    /\ session = None
    /\ field = ""
    /\ run = NoRun
NextCondense == CallCondense
SpecCondense == InitCondense /\ [][NextCondense]_vars

\* a direct call of analyze_text
InitAnalyze ==
    /\ a_text \in AnalyzeTexts
    /\ a_type \in AnalysisTypeValues
    /\ a_model \in Models
    /\ apc = "input"
    /\ a_out = <<>>
    /\ pieces = <<>>
    /\ max_chars = 0
    /\ cpc = "idle"
    /\ frame = <<>>
    /\ file = NoFile
    /\ session = None
    /\ field = ""
    /\ run = NoRun
NextAnalyze == CallAnalyze
SpecAnalyze == InitAnalyze /\ [][NextAnalyze]_vars

(***************************************************************************)
(* Claims about condense_text, checked under SpecCondense                  *)
(***************************************************************************)
Text0 == Flatten(pieces)
NChunks == Len(frame.chunks)
\* the qualifying sentences of chunk k (1-based), by position in `sentences`
KeyIdx(k) == {m \in 1..Len(frame.sentences[k]) : IsKey(frame.sentences[k][m])}
\* the 0-based index of the first occurrence of the marker in s, -1 if none
FirstMarker(s) == find(s, Marker)
\* no double quote and no uppercase letter directly followed by a lowercase one
NothingQualifies(chunk) ==
    /\ \A i \in 1..Len(chunk) : chunk[i] # "\""
    /\ \A i \in 1..(Len(chunk) - 1) :
           ~(chunk[i] \in Upper /\ chunk[i + 1] \in Lower)

\* C1: for a non-negative max_chars the returned string is at most max_chars
\* long; it is the first max_chars characters of the space-joined selection
\* when that is longer than max_chars, and the joined selection otherwise.
C1_LengthBound ==
    (cpc = "done" /\ max_chars >= 0) =>
        /\ Len(frame.result) <= max_chars
        /\ frame.condensed_text = join(frame.condensed)
        /\ Len(frame.condensed_text) > max_chars =>
               frame.result = SubSeq(frame.condensed_text, 1, max_chars)
        /\ Len(frame.condensed_text) <= max_chars =>
               frame.result = frame.condensed_text
C1_Witness ==
    /\ cpc = "done"
    /\ max_chars = 2
    /\ Len(frame.condensed_text) > 2
    /\ Len(frame.result) = 2

C6_MarkerStrip ==
    cpc = "done" =>
        LET m == FirstMarker(Text0)
            chunked == ExtendAll(frame.chunks, NChunks)
        IN  /\ m # -1 => chunked = SubSeq(Text0, m + 100 + 1, Len(Text0))
            /\ (m # -1 /\ Len(Text0) - m <= 100) => frame.result = <<>>
            /\ m = -1 => chunked = Text0
C6_Witness ==
    /\ cpc = "done"
    /\ FirstMarker(Text0) > 0
    /\ Len(Text0) > FirstMarker(Text0) + 100
    /\ NChunks >= 1
    /\ frame.result # <<>>

\* C8: when no chunk has a qualifying sentence and the joined selection is
\* not longer than max_chars, the result is the first sentence of each
\* chunk, in chunk order, joined by single spaces; the empty text gives the
\* empty string.
C8_Fallback ==
    cpc = "done" =>
        /\ ((\A k \in 1..NChunks : NothingQualifies(frame.chunks[k]))
            /\ Len(frame.condensed_text) <= max_chars) =>
               frame.result =
                   join([k \in 1..NChunks |-> frame.sentences[k][1]])
        /\ Text0 = <<>> => frame.result = <<>>
C8_Witness ==
    /\ cpc = "done"
    /\ NChunks >= 2
    /\ \A k \in 1..NChunks : NothingQualifies(frame.chunks[k])
    /\ Len(frame.condensed_text) <= max_chars
    /\ Len(frame.result) >= 3

\* C9: of two chunks i < j that each have at least two qualifying sentences,
\* the later one contributes at least as many sentences as the earlier one.
C9_LaterBias ==
    cpc = "done" =>
        \A k1, k2 \in 1..NChunks :
            (k1 < k2 /\ Cardinality(KeyIdx(k1)) >= 2
                     /\ Cardinality(KeyIdx(k2)) >= 2) =>
                Len(frame.added[k2]) >= Len(frame.added[k1])
(***************************************************************************)
(* Claim about analyze_text, checked under SpecAnalyze                     *)
(***************************************************************************)
\* C2: called with an analysis_type that is none of summary, sentiment and
\* characters, analyze_text yields the invalid-type placeholder text and
\* sends no request to the LLM completion API.
C2_InvalidTypeNoCall ==
    (apc = "done" /\ a_type \notin {"summary", "sentiment", "characters"}) =>
        /\ a_out.ret = "Invalid analysis type"
        /\ a_out.requests = <<>>

(***************************************************************************)
(* Claims about the session, checked under Spec                            *)
(***************************************************************************)
\* the mapping books.json holds
FileBooks == load_books(file).ret
FetchFails(net) == net.meta = "error" \/ ~net.link \/ net.content = None
\* the content of a file is a JSON object: "{", members, "}", with
\* whitespace anywhere between the tokens
IsObject(c) ==
    \E i, j \in 1..Len(c) :
        /\ i < j
        /\ c[i] = TokOpen
        /\ c[j] = TokClose
        /\ \A k \in 1..Len(c) :
              \/ c[k] = TokWs
              \/ k = i
              \/ k = j
              \/ (i < k /\ k < j /\ c[k].t = "member")
IsBlank(c) == \A k \in 1..Len(c) : c[k] = TokWs

\* C3: in an execution where the entered identifier is not cached and the
\* fetch fails (metadata request error, no "Plain Text UTF-8" link, content
\* request error), fetch_book yields no record, save_books is not called,
\* the in-memory mapping and the file are what they were, nothing crashes.
C3_FailedFetch ==
    (run.fetched # None /\ FetchFails(run.fetched[1])) =>
        /\ run.book_id # "" /\ ~Has(run.loaded, run.book_id)
        /\ run.fetch_ret = None
        /\ ~run.saved
        /\ run.books = run.loaded
        /\ file = run.file_before
        /\ ~run.crashed
C3_Witness ==
    /\ run.fetched # None
    /\ run.fetched[1].link /\ run.fetched[1].content = None
    /\ Len(run.loaded) >= 1
    /\ run.books = run.loaded
    /\ file = run.file_before

\* the mapping books.json held when the last execution started
BooksBefore == load_books(run.file_before).ret

\* C4: once the cache holds a record for an identifier, every later cache
\* state (the file and the in-memory mapping) maps the identifier to the
\* same title and content; a record appears only by a successful fetch of
\* its identifier, and the fetcher is called only on a cache miss.  Stated
\* for one execution, from the file it started with to the file and the
\* mapping it ends with; executions follow one another, so what holds of
\* each holds of every later state.
C4_RecordsStable ==
    run.kind # "none" =>
        \A id \in Ids :
          /\ Has(BooksBefore, id) =>
                /\ Has(FileBooks, id)
                /\ Get(FileBooks, id) = Get(BooksBefore, id)
                /\ Has(run.books, id)
                /\ Get(run.books, id) = Get(BooksBefore, id)
                /\ ~(run.fetched # None /\ run.book_id = id)
          /\ (~Has(BooksBefore, id) /\ Has(FileBooks, id)) =>
                /\ run.fetched # None
                /\ run.book_id = id
                /\ run.fetch_ret = <<Get(FileBooks, id)>>
C4_Witness ==
    /\ Len(BooksBefore) = 1
    /\ run.saved
    /\ Len(FileBooks) = 2
    /\ Get(FileBooks, BooksBefore[1].id) = BooksBefore[1].data

\* C7: load_books never raises and returns the empty mapping when the file
\* is missing, empty or whitespace only, or malformed; it warns in the
\* malformed case only, and the execution goes on without crashing.
C7_LoadTolerant ==
    run.kind # "none" =>
        LET f == run.file_before
            missing == ~f.exists
            blank == f.exists /\ IsBlank(f.content)
            malformed == f.exists /\ ~IsBlank(f.content)
                         /\ ~IsObject(f.content)
        IN  /\ (missing \/ blank \/ malformed) => run.loaded = <<>>
            /\ run.warned <=> malformed
            /\ ~run.crashed
C7_Witness ==
    /\ run.warned
    /\ run.loaded = <<>>
    /\ run.saved
    /\ run.shown # None

\* C10: in an execution in which the user clicks a cached book in the
\* sidebar, that book is the current book at the end of the execution and
\* the one displayed, whatever the identifier text input holds.
C10_ClickSelects ==
    run.kind = "click" =>
        /\ session = run.clicked
        /\ run.shown # None
        /\ run.shown[1].id = run.clicked[1]
====
